---- MODULE Spec2Model ----
(***************************************************************************)
(* QEMU Object Model (qom/object.c): type registry, lazy class build,      *)
(* instance lifecycle over the parent chain, interface trampolines and     *)
(* dynamic casts.                                                          *)
(*                                                                         *)
(* Pointers are indices: a TypeImpl* is an index into types, an            *)
(* ObjectClass* an index into classes, an Object* an index into objs;      *)
(* 0 is NULL.  Sizes are counted in pointer-sized words.  The C functions  *)
(* are operators from a program state S (a record of the variables) to     *)
(* the program state after the call; S.status leaves "ok" when the         *)
(* process dies, and every operator is the identity on a dead process.     *)
(***************************************************************************)
EXTENDS Integers, Sequences, FiniteSets, TLC

\* ---------------------------------------------------------------- bounds
MaxLate == 1         \* type_register_static calls after startup
MaxObjs == 4         \* Object allocations (instances and trampolines)
MaxLive == 1         \* instances the caller holds at one time
MaxMaps == 3         \* qpci_pc_iomap calls on the bus

\* ------------------------------------------------------------- constants
MAX_INTERFACES == 32
SizeofObjectClass == 1     \* struct ObjectClass { TypeImpl *type; }
SizeofObject == 2          \* struct Object { class; interfaces; }
SizeofInterface == 3       \* struct Interface { Object parent; Object *obj; }
SizeofInterfaceClass == 1  \* struct InterfaceClass { ObjectClass parent_class; }

NULL == 0
NULLSTR == "<null>"        \* a NULL const char *
TYPE_INTERFACE == "interface"
SEGV == 0 - 1              \* outcome of a cast that dereferences a bad pointer

\* process status
OK == "ok"
ABORT == "abort"           \* g_assert failure or abort()
CRASH == "segv"            \* NULL dereference
BOUND == "bound"           \* the model's allocation bound was hit
STACK == "stack"           \* unbounded recursion: the stack runs out

\* ------------------------------------------------- TypeInfo of the callers
\* The TypeInfo aggregates the host application hands to type_register_static.
\* A hook is modelled by its presence; calling it appends an event to log.
\* base_finalize, class_finalize and class_data are copied at registration and
\* never read again; they are left out.
NoInterfaces == << >>

Info(name, parent, csize, isize, hooks, abstract, ifaces) ==
    [name |-> name, parent |-> parent,
     class_size |-> csize, instance_size |-> isize,
     base_init |-> hooks, class_init |-> hooks,
     instance_init |-> hooks, instance_finalize |-> hooks,
     abstract |-> abstract, interfaces |-> ifaces]

IfaceInfo(type, initfn) == [type |-> type, interface_initfn |-> initfn]

interface_info ==
    Info(TYPE_INTERFACE, NULLSTR, 0, SizeofInterface, FALSE, TRUE, NoInterfaces)

\* registered by the host's startup hooks, in link order, before main
Startup ==
    << Info("Root", NULLSTR, 2, 2, TRUE, FALSE, NoInterfaces),
       Info("IfA", TYPE_INTERFACE, 0, SizeofInterface, TRUE, TRUE, NoInterfaces),
       Info("Mid", "Root", 0, 2, TRUE, FALSE, << IfaceInfo("IfA", TRUE) >>),
       Info("Leaf", "Mid", 3, 3, TRUE, FALSE, << IfaceInfo("IfA", FALSE) >>),
       Info("Thin", "Root", 1, 2, FALSE, FALSE, NoInterfaces),
       Info("Small", "Root", 0, SizeofObjectClass, FALSE, FALSE, NoInterfaces),
       Info("IfB", TYPE_INTERFACE, 0, SizeofInterface, FALSE, TRUE,
            << IfaceInfo("IfB", FALSE) >>),
       Info("Rec", "Root", 0, 2, FALSE, FALSE, << IfaceInfo("IfB", FALSE) >>) >>

\* a NULL-terminated InterfaceInfo array of n entries
Repeat(n, x) == [k \in 1..n |-> x]

\* registered while the program runs: a new name, a name already taken, and
\* a type that declares one interface more than a TypeImpl has room for
Catalog ==
    { Info("Sib", "Root", 2, 2, FALSE, FALSE, NoInterfaces),
      Info("Leaf", "Mid", 3, 3, TRUE, FALSE, << IfaceInfo("IfA", FALSE) >>),
      Info("Wide", "Root", 0, 2, FALSE, FALSE,
           Repeat(MAX_INTERFACES + 1, IfaceInfo("IfA", FALSE))) }

StaticNames == { i.name : i \in Catalog } \cup { TYPE_INTERFACE }
                  \cup { Startup[k].name : k \in 1..Len(Startup) }
NoSuchType == "no-such-type"

\* ------------------------------------------------------------------ state
VARIABLES
    type_table,   \* the GHashTable: name -> TypeImpl*
    types,        \* heap of TypeImpl
    classes,      \* heap of ObjectClass
    objs,         \* heap of Object / Interface
    count,        \* static int count of type_register_anonymous
    log,          \* hook calls and trampoline insertions of the last operation
    status,       \* OK until the process dies
    handles,      \* the instances the caller created and has not destroyed
    late,         \* type_register_static calls made after startup
    lastOp,       \* the last API call, its arguments and its result
    bus,          \* the QPCIBusPC qpci_init_pc returned
    maps          \* the mappings qpci_pc_iomap has handed out, oldest first

vars == << type_table, types, classes, objs, count, log, status, handles, late, lastOp,
           bus, maps >>

qom == << type_table, types, classes, objs, count, log, handles, late >>
pci == << bus, maps >>

\* What a fresh buffer holds where the interfaces word of an Object would
\* be: anything.  Two values stand for it: NULL, the empty list, and a
\* pointer to no GSList, which faults when the list is walked.
WILD == << SEGV >>
Junk == { << >>, WILD }

\* junk is the content of the memory the allocator hands out next; stack
\* holds the type names of the object_new calls that have not returned
State ==
    [type_table |-> type_table, types |-> types, classes |-> classes,
     objs |-> objs, count |-> count, log |-> log, status |-> status,
     junk |-> << >>, stack |-> << >>]

Die(S, how) == [S EXCEPT !.status = how]

Event(hook, ti, on) == [hook |-> hook, ti |-> ti, on |-> on]

Call(S, hook, ti, on) == [S EXCEPT !.log = Append(@, Event(hook, ti, on))]

\* ------------------------------------------------------------ type registry
type_table_add(S, ti) ==
    LET name == S.types[ti].name
    IN  [S EXCEPT !.type_table =
            [n \in DOMAIN S.type_table \cup {name} |->
                IF n = name THEN ti ELSE S.type_table[n]]]

type_table_lookup(S, name) ==
    IF name \in DOMAIN S.type_table THEN S.type_table[name] ELSE NULL

type_get_by_name(S, name) ==
    IF name = NULLSTR THEN NULL ELSE type_table_lookup(S, name)

\* g_malloc0(sizeof(*ti)) followed by the field copies both registration
\* functions share; copyAbstract is FALSE where the copy is missing.
NewTypeImpl(name, info, copyAbstract) ==
    [name |-> name, parent |-> info.parent,
     class_size |-> info.class_size, instance_size |-> info.instance_size,
     base_init |-> info.base_init, class_init |-> info.class_init,
     instance_init |-> info.instance_init,
     instance_finalize |-> info.instance_finalize,
     abstract |-> IF copyAbstract THEN info.abstract ELSE FALSE,
     info_abstract |-> info.abstract,
     class |-> NULL,
     num_interfaces |-> Len(info.interfaces),
     interfaces |-> [i \in 1..Len(info.interfaces) |->
                        [parent |-> info.interfaces[i].type,
                         interface_initfn |-> info.interfaces[i].interface_initfn,
                         type |-> NULL]]]

type_register_static(S, info) ==
    IF S.status # OK THEN S
    ELSE IF info.name = NULLSTR THEN Die(S, ABORT)
    ELSE LET ti == Len(S.types) + 1
             S1 == [S EXCEPT !.types = Append(@, NewTypeImpl(info.name, info, TRUE))]
         IN  type_table_add(S1, ti)

\* The copy loop of type_register_static has no bound: for an array of more
\* than MAX_INTERFACES entries the stores to ti->interfaces[i], i >=
\* MAX_INTERFACES, go behind the g_malloc0'd TypeImpl.  Such a store either
\* faults or lands in memory the TypeImpl does not own and the call returns.
TypeRegisterStaticOutcomes(S, info) ==
    IF info.name # NULLSTR /\ Len(info.interfaces) > MAX_INTERFACES
    THEN { type_register_static(S, info), Die(S, CRASH) }
    ELSE { type_register_static(S, info) }

AnonName(n) == "<anonymous-" \o ToString(n) \o ">"

type_register_anonymous(S, info) ==
    IF S.status # OK THEN S
    ELSE LET ti == Len(S.types) + 1
             S1 == [S EXCEPT !.types = Append(@, NewTypeImpl(AnonName(S.count), info, FALSE)),
                             !.count = @ + 1]
         IN  type_table_add(S1, ti)

\* ------------------------------------------------------------ class builder
\* Every operator below uses the state a called function returns exactly
\* once: what follows a call is an operator of its own, which takes the
\* returned state as a parameter.

\* What the hooks of the host do to a class: a base_init or class_init of
\* type ti stores a word that names the hook and ti in the last slot ti's
\* class_size covers, when that slot lies behind the header.
HookStore(S, class, ti, word) ==
    IF /\ S.types[ti].class_size > SizeofObjectClass
       /\ S.types[ti].class_size <= S.classes[class].size
    THEN [S EXCEPT !.classes[class].slots[S.types[ti].class_size] = word]
    ELSE S

\* if (ti->base_init) ti->base_init(base_ti->class)
BaseInitCall(S, base_ti, ti) ==
    IF S.status # OK THEN S
    ELSE IF S.types[ti].base_init
         THEN HookStore(Call(S, "base_init", ti, S.types[base_ti].class),
                        S.types[base_ti].class, ti, 0 - ti)
         ELSE S

RECURSIVE type_class_base_init(_, _, _)

\* mutant: the level's own base_init runs before the recursion into its parent
type_class_base_init_ChildFirst(S, base_ti, typename) ==
    IF S.status # OK THEN S
    ELSE IF typename = NULLSTR THEN S
    ELSE IF type_get_by_name(S, typename) = NULL THEN Die(S, CRASH)
    ELSE type_class_base_init(
             BaseInitCall(S, base_ti, type_get_by_name(S, typename)),
             base_ti, S.types[type_get_by_name(S, typename)].parent)

type_class_base_init(S, base_ti, typename) ==
    IF S.status # OK THEN S
    ELSE IF typename = NULLSTR THEN S
    ELSE IF type_get_by_name(S, typename) = NULL THEN Die(S, CRASH)   \* ti->parent
    ELSE BaseInitCall(
             type_class_base_init(S, base_ti,
                                  S.types[type_get_by_name(S, typename)].parent),
             base_ti, type_get_by_name(S, typename))

\* the resolved size, or SEGV when a parent name does not resolve
RECURSIVE type_class_get_size(_, _)
type_class_get_size(S, ti) ==
    IF ti = NULL THEN SEGV                               \* ti->class_size
    ELSE IF S.types[ti].class_size # 0 THEN S.types[ti].class_size
    ELSE IF S.types[ti].parent # NULLSTR
         THEN type_class_get_size(S, type_get_by_name(S, S.types[ti].parent))
         ELSE SizeofObjectClass

\* iface->type = the TypeImpl type_register_anonymous returned
SetInterfaceType(S, ti, i) ==
    IF S.status # OK THEN S
    ELSE [S EXCEPT !.types[ti].interfaces[i].type = Len(S.types)]

RECURSIVE type_class_init(_, _)

\* mutant: the class of the synthesized type is built right away
type_class_interface_init_Eager(S, ti, i) ==
    type_class_init(
        SetInterfaceType(
            type_register_anonymous(S,
                [name |-> NULLSTR, parent |-> S.types[ti].interfaces[i].parent,
                 class_size |-> SizeofInterfaceClass,
                 instance_size |-> SizeofInterface,
                 base_init |-> FALSE,
                 class_init |-> S.types[ti].interfaces[i].interface_initfn,
                 instance_init |-> FALSE, instance_finalize |-> FALSE,
                 abstract |-> TRUE, interfaces |-> NoInterfaces]),
            ti, i),
        Len(S.types) + 1)

type_class_interface_init(S, ti, i) ==
    SetInterfaceType(
        type_register_anonymous(S,
            [name |-> NULLSTR, parent |-> S.types[ti].interfaces[i].parent,
             class_size |-> SizeofInterfaceClass,
             instance_size |-> SizeofInterface,
             base_init |-> FALSE,
             class_init |-> S.types[ti].interfaces[i].interface_initfn,
             instance_init |-> FALSE, instance_finalize |-> FALSE,
             abstract |-> TRUE, interfaces |-> NoInterfaces]),
        ti, i)

RECURSIVE InterfaceInitLoop(_, _, _)
InterfaceInitLoop(S, ti, i) ==
    IF S.status # OK \/ i > S.types[ti].num_interfaces THEN S
    ELSE InterfaceInitLoop(type_class_interface_init(S, ti, i), ti, i + 1)

\* ti->class_size = size; ti->class = g_malloc0(size); ti->class->type = ti.
\* slots are the words of the class behind its header.
ClassAlloc(S, ti, size) ==
    [S EXCEPT !.types[ti].class_size = size,
              !.types[ti].class = Len(S.classes) + 1,
              !.classes = Append(@, [type |-> ti, size |-> size,
                                     slots |-> [k \in (SizeofObjectClass + 1)..size |-> 0]])]

\* memcpy(ti->class + sizeof(ObjectClass), ti_parent->class + sizeof(ObjectClass),
\*        ti_parent->class_size - sizeof(ObjectClass))
Memcpy(S, ti, ti_parent) ==
    [S EXCEPT !.classes[S.types[ti].class].slots =
        [k \in DOMAIN @ |->
            IF k <= S.types[ti_parent].class_size
            THEN S.classes[S.types[ti_parent].class].slots[k]
            ELSE @[k]]]

\* mutant: the parent's slots are not copied
ClassInherit_NoMemcpy(S, ti, ti_parent) ==
    IF S.status # OK THEN S
    ELSE IF ~(S.types[ti_parent].class_size <= S.types[ti].class_size)
         THEN Die(S, ABORT)
         ELSE S

\* g_assert(ti_parent->class_size <= ti->class_size), then the memcpy
ClassInherit(S, ti, ti_parent) ==
    IF S.status # OK THEN S
    ELSE IF ~(S.types[ti_parent].class_size <= S.types[ti].class_size)
         THEN Die(S, ABORT)
         ELSE Memcpy(S, ti, ti_parent)

\* if (ti->parent) { type_class_init(ti_parent); ... }
ClassParent(S, ti) ==
    IF S.types[ti].parent = NULLSTR THEN S
    ELSE ClassInherit(type_class_init(S, type_get_by_name(S, S.types[ti].parent)),
                      ti, type_get_by_name(S, S.types[ti].parent))

\* the local class_size: the parent's class_size, or sizeof(ObjectClass)
InheritedSize(S, ti) ==
    IF S.types[ti].parent = NULLSTR THEN SizeofObjectClass
    ELSE S.types[type_get_by_name(S, S.types[ti].parent)].class_size

\* the class of ti and the class of its parent as they are at this point
Snapshot(S, ti) ==
    [hook |-> "memset", ti |-> ti, on |-> S.types[ti].class,
     class |-> S.classes[S.types[ti].class],
     parent_class |->
        IF S.types[ti].parent = NULLSTR THEN NULL
        ELSE S.types[type_get_by_name(S, S.types[ti].parent)].class,
     parent_slots |->
        IF S.types[ti].parent = NULLSTR THEN << >>
        ELSE S.classes[S.types[type_get_by_name(S, S.types[ti].parent)].class].slots]

\* memset(ti->class + class_size, 0, ti->class_size - class_size); the
\* classes as they are behind it are put on the log
ClassMemset(S, ti) ==
    IF S.status # OK THEN S
    ELSE [S EXCEPT !.classes[S.types[ti].class].slots =
                       [k \in DOMAIN @ |-> IF k > InheritedSize(S, ti) THEN 0 ELSE @[k]],
                   !.log = Append(@,
                       [Snapshot(S, ti) EXCEPT !.class.slots =
                           [k \in DOMAIN @ |->
                               IF k > InheritedSize(S, ti) THEN 0 ELSE @[k]]])]

\* if (ti->class_init) ti->class_init(ti->class, ti->class_data)
ClassInitCall(S, ti) ==
    IF S.status # OK THEN S
    ELSE IF S.types[ti].class_init
         THEN HookStore(Call(S, "class_init", ti, S.types[ti].class),
                        S.types[ti].class, ti, ti)
         ELSE S

\* type_class_init past its early return
TypeClassBuild(S, ti) ==
    IF type_class_get_size(S, ti) = SEGV THEN Die(S, CRASH)
    ELSE ClassInitCall(
             InterfaceInitLoop(
                 type_class_base_init(
                     ClassMemset(
                         ClassParent(ClassAlloc(S, ti, type_class_get_size(S, ti)), ti),
                         ti),
                     ti, S.types[ti].parent),
                 ti, 1),
             ti)

\* mutant: no early return when the class exists
type_class_init_Rebuild(S, ti) ==
    IF S.status # OK THEN S
    ELSE IF ti = NULL THEN Die(S, CRASH)
    ELSE TypeClassBuild(S, ti)

type_class_init(S, ti) ==
    IF S.status # OK THEN S
    ELSE IF ti = NULL THEN Die(S, CRASH)                 \* ti->class
    ELSE IF S.types[ti].class # NULL THEN S
    ELSE TypeClassBuild(S, ti)

\* ------------------------------------------------ dynamic type identification
\* while (type) { if (type == target_type) return true; type = parent; }
RECURSIVE AncestorWalk(_, _, _)
AncestorWalk(S, type, target_type) ==
    IF type = NULL THEN FALSE
    ELSE IF type = target_type THEN TRUE
    ELSE AncestorWalk(S, type_get_by_name(S, S.types[type].parent), target_type)

RECURSIVE object_is_type(_, _, _)
object_is_type(S, obj, typename) ==
    LET target_type == type_get_by_name(S, typename)
        type == S.classes[S.objs[obj].class].type
    IN  \/ AncestorWalk(S, type, target_type)
        \/ /\ S.objs[obj].interfaces # WILD
           /\ \E k \in 1..Len(S.objs[obj].interfaces) :
                 object_is_type(S, S.objs[obj].interfaces[k], typename)

\* object_is_type(obj, typename) faults: the parent chain gives no match and
\* the loop over obj->interfaces starts from a pointer to no GSList
IsTypeFaults(S, obj, typename) ==
    /\ ~AncestorWalk(S, S.classes[S.objs[obj].class].type,
                     type_get_by_name(S, typename))
    /\ S.objs[obj].interfaces = WILD

\* INTERFACE(obj)->obj: the word behind the Object header, read through an
\* Interface *.  Inside the allocation it is the stored word; an instance of
\* SizeofObject words has no such word and the read is out of bounds, so it
\* yields any pointer value.
InterfaceObjRead(S, obj) ==
    IF S.objs[obj].size >= SizeofInterface
    THEN { S.objs[obj].obj }
    ELSE { NULL } \cup (1..Len(S.objs))

\* object_is_type(p, typename) ? p : NULL for a pointer p that was read from
\* memory; NULL and pointers to memory that holds no object fault.
CastThrough(S, p, typename) ==
    IF p = NULL THEN { SEGV }
    ELSE IF S.objs[p].mem = "freed" \/ S.objs[p].class = NULL THEN { SEGV }
    ELSE IF IsTypeFaults(S, p, typename) THEN { SEGV }
    ELSE IF object_is_type(S, p, typename) THEN { p } ELSE { NULL }

FirstMatching(S, ifaces, typename) ==
    LET ks == { k \in 1..Len(ifaces) : object_is_type(S, ifaces[k], typename) }
    IN  IF ks = {} THEN NULL
        ELSE ifaces[CHOOSE k \in ks : \A j \in ks : k <= j]

\* the set of results the call can produce: an Object*, NULL or SEGV
object_dynamic_cast(S, obj, typename) ==
    IF IsTypeFaults(S, obj, typename) THEN { SEGV }
    ELSE IF object_is_type(S, obj, typename) THEN { obj }
    ELSE IF FirstMatching(S, S.objs[obj].interfaces, typename) # NULL
         THEN { FirstMatching(S, S.objs[obj].interfaces, typename) }
    ELSE IF object_is_type(S, obj, TYPE_INTERFACE)
         THEN UNION { CastThrough(S, p, typename) : p \in InterfaceObjRead(S, obj) }
    ELSE { NULL }

\* the set of results of object_class_dynamic_cast_assert: the class, or
\* SEGV: behind the loop type is NULL and the fprintf argument type->name
\* dereferences it before abort() is reached
object_class_dynamic_cast_assert(S, class, typename) ==
    IF AncestorWalk(S, S.classes[class].type, type_get_by_name(S, typename))
    THEN { class }
    ELSE { SEGV }

object_get_class(S, obj) == S.objs[obj].class

object_get_type(S, obj) == S.types[S.classes[S.objs[obj].class].type].name

\* --------------------------------------------------------- instance lifecycle
RECURSIVE object_new(_, _)
RECURSIVE object_initialize(_, _, _)
RECURSIVE object_init(_, _, _)
RECURSIVE object_interface_init(_, _, _, _)
RECURSIVE ObjectInterfaceLoop(_, _, _, _)
RECURSIVE object_deinit(_, _, _)
RECURSIVE DeinitLoop(_, _)
RECURSIVE object_finalize(_, _)
RECURSIVE object_delete(_, _)

\* iface_obj = INTERFACE(the new object); iface_obj->obj = obj;
\* obj->interfaces = g_slist_prepend(obj->interfaces, iface_obj)
InterfaceLink(S, obj, decl, iface_obj) ==
    IF S.status # OK THEN S
    ELSE IF ~object_is_type(S, iface_obj, TYPE_INTERFACE)
         THEN Die(S, ABORT)                              \* INTERFACE(...)
    ELSE [S EXCEPT !.objs[iface_obj].obj = obj,
                   !.objs[obj].interfaces = << iface_obj >> \o @,
                   !.log = Append(@, Event("g_slist_prepend", decl, obj))]

\* decl is the declaring TypeImpl, i the index of its InterfaceImpl
object_interface_init(S, obj, decl, i) ==
    IF S.types[decl].interfaces[i].type = NULL THEN Die(S, CRASH)   \* ti->name
    ELSE InterfaceLink(
             object_new(S, S.types[S.types[decl].interfaces[i].type].name),
             obj, decl, Len(S.objs) + 1)

ObjectInterfaceLoop(S, obj, ti, i) ==
    IF S.status # OK \/ i > S.types[ti].num_interfaces THEN S
    ELSE ObjectInterfaceLoop(object_interface_init(S, obj, ti, i), obj, ti, i + 1)

\* if (ti->instance_init) ti->instance_init(obj)
InstanceInitCall(S, obj, ti) ==
    IF S.status # OK THEN S
    ELSE IF S.types[ti].instance_init
         THEN Call(S, "instance_init", ti, obj)
         ELSE S

\* if (ti->parent) object_init(obj, ti->parent)
ObjectInitParent(S, obj, ti) ==
    IF S.types[ti].parent # NULLSTR
    THEN object_init(S, obj, S.types[ti].parent)
    ELSE S

\* mutant: the level's interfaces and instance_init come before its parent's
object_init_ChildFirst(S, obj, typename) ==
    IF S.status # OK THEN S
    ELSE IF type_get_by_name(S, typename) = NULL THEN Die(S, CRASH)
    ELSE ObjectInitParent(
             InstanceInitCall(
                 ObjectInterfaceLoop(S, obj, type_get_by_name(S, typename), 1),
                 obj, type_get_by_name(S, typename)),
             obj, type_get_by_name(S, typename))

object_init(S, obj, typename) ==
    IF S.status # OK THEN S
    ELSE IF type_get_by_name(S, typename) = NULL THEN Die(S, CRASH)   \* ti->parent
    ELSE InstanceInitCall(
             ObjectInterfaceLoop(
                 ObjectInitParent(S, obj, type_get_by_name(S, typename)),
                 obj, type_get_by_name(S, typename), 1),
             obj, type_get_by_name(S, typename))

\* memset(obj, 0, n): the header words and the first word behind the header
Memset0(o, n) ==
    [o EXCEPT !.class = IF n >= 1 THEN NULL ELSE @,
              !.interfaces = IF n >= SizeofObject THEN << >> ELSE @,
              !.obj = IF n >= SizeofInterface THEN NULL ELSE @]

\* memset(obj, 0, ti->instance_size); obj->class = ti->class; object_init
ObjectSetup(S, data, ti, typename) ==
    object_init([S EXCEPT !.objs[data] =
                    [Memset0(@, S.types[ti].instance_size)
                        EXCEPT !.class = S.types[ti].class]],
                data, typename)

\* mutant: g_assert(ti->abstract == false) is missing
ObjectInitializeBuilt_NoAbstractAssert(S, data, ti, typename) ==
    IF S.status # OK THEN S
    ELSE ObjectSetup(S, data, ti, typename)

\* object_initialize after type_class_init(ti) returned
ObjectInitializeBuilt(S, data, ti, typename) ==
    IF S.status # OK THEN S
    ELSE IF ~(S.types[ti].abstract = FALSE) THEN Die(S, ABORT)
    ELSE ObjectSetup(S, data, ti, typename)

object_initialize(S, data, typename) ==
    IF S.status # OK THEN S
    ELSE IF type_get_by_name(S, typename) = NULL
         THEN Die(S, CRASH)                              \* ti->instance_size
    ELSE IF ~(S.types[type_get_by_name(S, typename)].instance_size >= SizeofObjectClass)
         THEN Die(S, ABORT)
    ELSE ObjectInitializeBuilt(
             type_class_init(S, type_get_by_name(S, typename)),
             data, type_get_by_name(S, typename), typename)

\* g_malloc: a fresh buffer that holds no object yet.  The interfaces word of
\* a buffer of fewer than sizeof(Object) words lies behind the buffer and
\* is never written by memset: it holds S.junk.  The words of larger buffers
\* are zeroed before they are read and are kept zero here.
Malloc(S, size, mem) ==
    [S EXCEPT !.objs = Append(@, [class |-> NULL,
                                  interfaces |-> IF size < SizeofObject
                                                 THEN S.junk ELSE << >>,
                                  obj |-> NULL, size |-> size, mem |-> mem])]

\* A call of object_new(T) made while a call of object_new(T) has not
\* returned: what the outer call did on its way here depends on the registry
\* alone, and nothing on that way changes what a name resolves to or what a
\* TypeImpl declares, so the inner call makes the same call again, and so on
\* until the stack is used up.
Recurs(S, typename) == \E k \in 1..Len(S.stack) : S.stack[k] = typename

Enter(S, typename) == [S EXCEPT !.stack = Append(@, typename)]

Return(S) ==
    IF S.status # OK THEN S
    ELSE [S EXCEPT !.stack = SubSeq(@, 1, Len(@) - 1)]

object_new(S, typename) ==
    IF S.status # OK THEN S
    ELSE IF type_get_by_name(S, typename) = NULL
         THEN Die(S, CRASH)                              \* ti->instance_size
    ELSE IF Recurs(S, typename) THEN Die(S, STACK)
    ELSE IF Len(S.objs) >= MaxObjs THEN Die(S, BOUND)
    ELSE Return(
             object_initialize(
                 Malloc(Enter(S, typename),
                        S.types[type_get_by_name(S, typename)].instance_size, "heap"),
                 Len(S.objs) + 1, typename))

\* while (obj->interfaces) { unlink the head; object_delete(it); }
DeinitLoop(S, obj) ==
    IF S.status # OK \/ S.objs[obj].interfaces = << >> THEN S
    ELSE IF S.objs[obj].interfaces = WILD THEN Die(S, CRASH)   \* obj->interfaces->data
    ELSE DeinitLoop(
             object_delete([S EXCEPT !.objs[obj].interfaces = Tail(@)],
                           Head(S.objs[obj].interfaces)),
             obj)

\* if (ti->instance_finalize) ti->instance_finalize(obj)
InstanceFinalizeCall(S, obj, ti) ==
    IF S.types[ti].instance_finalize
    THEN Call(S, "instance_finalize", ti, obj)
    ELSE S

\* if (ti->parent) object_init(obj, ti->parent)
DeinitParent(S, obj, ti) ==
    IF S.status # OK THEN S
    ELSE IF S.types[ti].parent # NULLSTR
         THEN object_init(S, obj, S.types[ti].parent)
         ELSE S

object_deinit(S, obj, typename) ==
    IF S.status # OK THEN S
    ELSE IF type_get_by_name(S, typename) = NULL
         THEN Die(S, CRASH)                              \* ti->instance_finalize
    ELSE DeinitParent(
             DeinitLoop(
                 InstanceFinalizeCall(S, obj, type_get_by_name(S, typename)),
                 obj),
             obj, type_get_by_name(S, typename))

object_finalize(S, data) ==
    IF S.status # OK THEN S
    ELSE object_deinit(S, data, S.types[S.classes[S.objs[data].class].type].name)

\* g_free(obj)
Free(S, obj) ==
    IF S.status # OK THEN S
    ELSE [S EXCEPT !.objs[obj].mem = "freed"]

object_delete(S, obj) == Free(object_finalize(S, obj), obj)

\* ------------------------------------------- tests/libqos/pci-pc.c: BAR mapping
\* A uint16_t, uint32_t or uint64_t value below 2^48 is a pair of a high part
\* and a low part of 16 bits: its value is hi * 2^16 + lo.
W16 == 65536

Num(hi, lo) == [hi |-> hi, lo |-> lo]

Add(a, b) == Num(a.hi + b.hi + (a.lo + b.lo) \div W16, (a.lo + b.lo) % W16)

Le(a, b) == a.hi < b.hi \/ (a.hi = b.hi /\ a.lo <= b.lo)

Uint16(a) == Num(0, a.lo)

Uint32(a) == Num(a.hi % W16, a.lo)

Bit(a, k) == IF k < 16 THEN (a.lo \div (2 ^ k)) % 2 ELSE (a.hi \div (2 ^ (k - 16))) % 2

\* 1ULL << k
Shl1(k) == IF k < 16 THEN Num(0, 2 ^ k) ELSE Num(2 ^ (k - 16), 0)

\* ffz(word): the index of the lowest zero bit of an unsigned long of 64 bits;
\* the bits of a uint32_t argument from bit 32 on are zero
ffz(word) == CHOOSE k \in 0..32 : /\ (k = 32 \/ Bit(word, k) = 0)
                                  /\ \A j \in 0..(k - 1) : Bit(word, j) = 1

PCI_BASE_ADDRESS_SPACE_IO == 1

\* ret->pci_hole_* and ret->pci_iohole_* as qpci_init_pc sets them
qpci_init_pc ==
    [pci_hole_start |-> Num(57344, 0),        \* 0xE0000000
     pci_hole_size |-> Num(8192, 0),          \* 0x20000000
     pci_hole_alloc |-> Num(0, 0),
     pci_iohole_start |-> Num(0, 49152),      \* 0xc000
     pci_iohole_size |-> Num(0, 16384),       \* 0x4000
     pci_iohole_alloc |-> Num(0, 0)]

\* What qpci_config_readl(dev, bar_reg) gives after the write of 0xFFFFFFFF:
\* the device decides.  An I/O BAR of 16 ports, a memory BAR of 4 KiB, a BAR
\* that is not implemented, no device at all, and two I/O read-backs with
\* more low bits set.
Readbacks ==
    { Num(65535, 65521),     \* 0xFFFFFFF1
      Num(65535, 61440),     \* 0xFFFFF000
      Num(0, 0),             \* 0x00000000
      Num(65535, 65535),     \* 0xFFFFFFFF
      Num(65535, 65283),     \* 0xFFFFFF03
      Num(0, 16383) }        \* 0x00003FFF

Barnos == { 0, 5, 6 }

Mapping(io, loc, k) == [io |-> io, loc |-> loc, size |-> Shl1(k), k |-> k]

\* qpci_pc_iomap with the read-back addr: the bus after the call, the mapping
\* handed out (none when it returns NULL or dies) and whether an assertion
\* ended the process
IoBranch(s, addr, size) ==
    IF ~Le(Add(s.pci_iohole_alloc, size), s.pci_iohole_size)
    THEN [bus |-> s, map |-> << >>, status |-> ABORT]
    ELSE [bus |-> [s EXCEPT !.pci_iohole_alloc = Uint16(Add(@, size))],
          map |-> << Mapping(TRUE,
                             Uint16(Add(s.pci_iohole_start, s.pci_iohole_alloc)),
                             ffz(addr)) >>,
          status |-> OK]

MemBranch(s, addr, size) ==
    IF ~Le(Add(s.pci_hole_alloc, size), s.pci_hole_size)
    THEN [bus |-> s, map |-> << >>, status |-> ABORT]
    ELSE [bus |-> [s EXCEPT !.pci_hole_alloc = Uint32(Add(@, size))],
          map |-> << Mapping(FALSE,
                             Uint32(Add(s.pci_hole_start, s.pci_hole_alloc)),
                             ffz(addr)) >>,
          status |-> OK]

qpci_pc_iomap(s, barno, addr) ==
    IF ~(barno >= 0 /\ barno <= 5) THEN [bus |-> s, map |-> << >>, status |-> ABORT]
    ELSE IF Shl1(ffz(addr)) = Num(0, 0) THEN [bus |-> s, map |-> << >>, status |-> OK]
    ELSE IF Bit(addr, 0) = PCI_BASE_ADDRESS_SPACE_IO
         THEN IoBranch(s, addr, Shl1(ffz(addr)))
         ELSE MemBranch(s, addr, Shl1(ffz(addr)))

\* qpci_pc_iounmap: FIXME, nothing
qpci_pc_iounmap(s, data) == s

\* ------------------------------------------------------------------ actions
Op(op, name, obj, ret) == [op |-> op, name |-> name, obj |-> obj, ret |-> ret]

\* the program state S after an API call; a call that would exceed the
\* model's allocation bounds is not taken
Commit(S) ==
    /\ S.status # BOUND
    /\ type_table' = S.type_table
    /\ types' = S.types
    /\ classes' = S.classes
    /\ objs' = S.objs
    /\ count' = S.count
    /\ log' = S.log
    /\ status' = S.status

Entry == [State EXCEPT !.log = << >>]

\* device_init(register_interface) and the host's startup hooks have run
RECURSIVE RegisterAll(_, _, _)
RegisterAll(S, infos, k) ==
    IF k > Len(infos) THEN S
    ELSE RegisterAll(type_register_static(S, infos[k]), infos, k + 1)

Init ==
    \E S \in { RegisterAll(
                 [type_table |-> << >>, types |-> << >>, classes |-> << >>,
                  objs |-> << >>, count |-> 0, log |-> << >>, status |-> OK,
                  junk |-> << >>, stack |-> << >>],
                 << interface_info >> \o Startup, 1) } :
        /\ type_table = S.type_table
        /\ types = S.types
        /\ classes = S.classes
        /\ objs = S.objs
        /\ count = S.count
        /\ log = S.log
        /\ status = S.status
        /\ handles = {}
        /\ late = 0
        /\ lastOp = Op("init", NULLSTR, NULL, NULL)
        /\ bus = qpci_init_pc
        /\ maps = << >>

RegisterStatic(info) ==
    /\ status = OK
    /\ late < MaxLate
    /\ late' = late + 1
    /\ \E S \in TypeRegisterStaticOutcomes(Entry, info) :
          /\ Commit(S)
          /\ lastOp' = Op("register", info.name, NULL,
                          IF S.status = OK THEN Len(S.types) ELSE NULL)
    /\ UNCHANGED << handles, pci >>

\* the buffer contents that make a difference for a type
JunkFor(typename) ==
    IF /\ type_get_by_name(State, typename) # NULL
       /\ types[type_get_by_name(State, typename)].instance_size < SizeofObject
    THEN Junk ELSE { << >> }

ObjectNew(typename) ==
    /\ status = OK
    /\ Cardinality(handles) < MaxLive
    /\ \E S \in { object_new([Entry EXCEPT !.junk = j], typename) :
                     j \in JunkFor(typename) } :
          /\ Commit(S)
          /\ lastOp' = Op("new", typename, Len(objs) + 1,
                          IF S.status = OK THEN Len(objs) + 1 ELSE NULL)
          /\ handles' = IF S.status = OK THEN handles \cup { Len(objs) + 1 }
                        ELSE handles
    /\ UNCHANGED << late, pci >>

\* in-place construction in a buffer of the caller, large enough for the type
ObjectInitialize(typename) ==
    /\ status = OK
    /\ Cardinality(handles) < MaxLive
    /\ Len(objs) < MaxObjs
    /\ LET ti == type_get_by_name(State, typename)
           size == IF ti = NULL THEN SizeofObject ELSE types[ti].instance_size
       IN  \E S \in { object_initialize(Malloc([Entry EXCEPT !.junk = j], size, "buf"),
                                        Len(objs) + 1, typename) :
                         j \in JunkFor(typename) } :
              /\ Commit(S)
              /\ lastOp' = Op("initialize", typename, Len(objs) + 1, NULL)
              /\ handles' = IF S.status = OK THEN handles \cup { Len(objs) + 1 }
                            ELSE handles
    /\ UNCHANGED << late, pci >>

ObjectDelete(obj) ==
    /\ status = OK
    /\ obj \in handles
    /\ objs[obj].mem = "heap"
    /\ \E S \in { object_delete(Entry, obj) } :
          /\ Commit(S)
          /\ lastOp' = Op("delete", object_get_type(State, obj), obj, NULL)
    /\ handles' = handles \ { obj }
    /\ UNCHANGED << late, pci >>

ObjectFinalize(obj) ==
    /\ status = OK
    /\ obj \in handles
    /\ objs[obj].mem = "buf"
    /\ \E S \in { object_finalize(Entry, obj) } :
          /\ Commit(S)
          /\ lastOp' = Op("finalize", object_get_type(State, obj), obj, NULL)
    /\ handles' = handles \ { obj }
    /\ UNCHANGED << late, pci >>

\* the objects a caller can name: its instances and their trampolines
Castable == handles \cup UNION { { objs[o].interfaces[k] :
                                     k \in 1..Len(objs[o].interfaces) }
                                       \cap (1..Len(objs)) :
                                   o \in handles }

CastNames == DOMAIN type_table \cup { NoSuchType }

ObjectDynamicCast(obj, typename) ==
    /\ status = OK
    /\ obj \in Castable
    /\ \E r \in object_dynamic_cast(State, obj, typename) :
          /\ lastOp' = Op("cast", typename, obj, r)
          /\ status' = IF r = SEGV THEN CRASH ELSE OK
    /\ log' = << >>
    /\ UNCHANGED << type_table, types, classes, objs, count, handles, late, pci >>

\* on a class the caller got from object_get_class
ObjectClassDynamicCastAssert(obj, typename) ==
    /\ status = OK
    /\ obj \in Castable
    /\ \E r \in object_class_dynamic_cast_assert(State, object_get_class(State, obj),
                                                 typename) :
          /\ lastOp' = Op("class_cast", typename, object_get_class(State, obj), r)
          /\ status' = IF r = SEGV THEN CRASH ELSE OK
    /\ log' = << >>
    /\ UNCHANGED << type_table, types, classes, objs, count, handles, late, pci >>

Next ==
    \/ \E info \in Catalog : RegisterStatic(info)
    \/ \E typename \in StaticNames \cup { NoSuchType } : ObjectNew(typename)
    \/ \E typename \in StaticNames \cup { NoSuchType } : ObjectInitialize(typename)
    \/ \E obj \in 1..Len(objs) : ObjectDelete(obj)
    \/ \E obj \in 1..Len(objs) : ObjectFinalize(obj)
    \/ \E obj \in 1..Len(objs), typename \in CastNames :
          ObjectDynamicCast(obj, typename)
    \/ \E obj \in 1..Len(objs), typename \in CastNames :
          ObjectClassDynamicCastAssert(obj, typename)

Spec == Init /\ [][Next]_vars

\* the bus alone: the calls a test makes through bus->iomap and bus->iounmap
QpciPcIomap(barno, addr) ==
    /\ status = OK
    /\ Len(maps) < MaxMaps
    /\ \E r \in { qpci_pc_iomap(bus, barno, addr) } :
          /\ bus' = r.bus
          /\ maps' = maps \o r.map
          /\ status' = r.status
          /\ lastOp' = Op("iomap", NULLSTR, barno, r.map)
    /\ UNCHANGED qom

QpciPcIounmap(k) ==
    /\ status = OK
    /\ k \in 1..Len(maps)
    /\ bus' = qpci_pc_iounmap(bus, maps[k].loc)
    /\ lastOp' = Op("iounmap", NULLSTR, k, NULL)
    /\ UNCHANGED << qom, status, maps >>

PciNext ==
    \/ \E barno \in Barnos, addr \in Readbacks : QpciPcIomap(barno, addr)
    \/ \E k \in 1..MaxMaps : QpciPcIounmap(k)

PciSpec == Init /\ [][PciNext]_vars

\* ============================================================== properties
\* the parent chain of a type name as the code walks it, root first
RECURSIVE ChainIn(_, _)
ChainIn(S, typename) ==
    LET ti == type_get_by_name(S, typename)
    IN  IF ti = NULL THEN << >>
        ELSE ChainIn(S, S.types[ti].parent) \o << ti >>

RECURSIVE Reverse(_)
Reverse(s) == IF s = << >> THEN << >> ELSE Reverse(Tail(s)) \o << Head(s) >>

TiOf(events) == [k \in 1..Len(events) |-> events[k].ti]

HookTi(events) == [k \in 1..Len(events) |-> << events[k].hook, events[k].ti >>]

\* what the last operation did to object o
InstanceEvents(o, hooks) ==
    LET Test(e) == e.on = o /\ e.hook \in hooks
    IN  SelectSeq(log, Test)

Created == lastOp.op \in { "new", "initialize" } /\ status = OK
Destroyed == lastOp.op \in { "delete", "finalize" } /\ status = OK

WithInstanceInit(chain) ==
    LET Test(ti) == types[ti].instance_init IN SelectSeq(chain, Test)

WithInstanceFinalize(chain) ==
    LET Test(ti) == types[ti].instance_finalize IN SelectSeq(chain, Test)

PrependsBefore(events, k) ==
    Cardinality({ j \in 1..(k - 1) : /\ events[j].hook = "g_slist_prepend"
                                     /\ events[j].ti = events[k].ti })

\* C1: object_new / object_initialize of a type call the instance_init hooks
\* of its parent chain on the new instance exactly once each, root first and
\* the type itself last, and when the hook of a level runs every interface
\* trampoline declared on that level has been put on the instance's list.
C1_InstanceInitOrder ==
    Created =>
        LET events == InstanceEvents(lastOp.obj, { "instance_init", "g_slist_prepend" })
            inits == InstanceEvents(lastOp.obj, { "instance_init" })
        IN  /\ TiOf(inits) = WithInstanceInit(ChainIn(State, lastOp.name))
            /\ \A k \in 1..Len(events) :
                  events[k].hook = "instance_init" =>
                      PrependsBefore(events, k) = types[events[k].ti].num_interfaces

C1_Witness ==
    /\ Created
    /\ lastOp.name = "Leaf"
    /\ Len(InstanceEvents(lastOp.obj, { "instance_init" })) = 3
    /\ Len(InstanceEvents(lastOp.obj, { "g_slist_prepend" })) = 2

\* C2: object_delete / object_finalize of an instance call instance_finalize
\* once per level of its parent chain, the type itself first and the root
\* last, and call no instance_init hook on that instance.
C2_FinalizeOrder ==
    Destroyed =>
        /\ TiOf(InstanceEvents(lastOp.obj, { "instance_finalize" }))
              = Reverse(WithInstanceFinalize(ChainIn(State, lastOp.name)))
        /\ InstanceEvents(lastOp.obj, { "instance_init" }) = << >>

\* the classes the step built, and the class hooks it ran on class c
ClassBuilt(t) ==
    /\ types'[t].class # NULL
    /\ t \in DOMAIN types => types[t].class = NULL

ClassEvents(events, c) ==
    LET Test(e) == e.on = c /\ e.hook \in { "base_init", "class_init" }
    IN  SelectSeq(events, Test)

BaseInits(S, chain) ==
    LET Test(ti) == S.types[ti].base_init
        with == SelectSeq(chain, Test)
    IN  [k \in 1..Len(with) |-> << "base_init", with[k] >>]

OwnClassInit(S, t) ==
    IF S.types[t].class_init THEN << << "class_init", t >> >> ELSE << >>

\* C3 as stated: building the class of T calls base_init of every level of
\* T's parent chain, T included, root first, on T's class, and then T's
\* class_init, and nothing else, on T's class.
C3_BaseInitOrder ==
    [][ status' = OK =>
          \A t \in DOMAIN types' :
              ClassBuilt(t) =>
                  HookTi(ClassEvents(log', types'[t].class))
                     = BaseInits(State', ChainIn(State', types'[t].parent) \o << t >>)
                          \o OwnClassInit(State', t) ]_vars

\* C3 as amended: base_init is called for the proper ancestors of T only,
\* root first, each on T's class; T's own base_init is not called on T's
\* class; T's class_init follows them and no other class_init runs on T's
\* class.
C3_BaseInitOrder_Amended ==
    [][ status' = OK =>
          \A t \in DOMAIN types' :
              ClassBuilt(t) =>
                  HookTi(ClassEvents(log', types'[t].class))
                     = BaseInits(State', ChainIn(State', types'[t].parent))
                          \o OwnClassInit(State', t) ]_vars

C3_Witness ==
    /\ status = OK
    /\ \E k \in 1..Len(log) :
          /\ log[k].hook = "class_init"
          /\ types[log[k].ti].name = "Leaf"
          /\ Len(ClassEvents(log, log[k].on)) = 3

TypeOf(o) == classes[objs[o].class].type

NamesOf(chain) == { types[chain[k]].name : k \in 1..Len(chain) }

\* the InterfaceImpl entries declared along a chain, as << TypeImpl, index >>
EntriesOf(chain) ==
    UNION { { << chain[k], i >> : i \in 1..types[chain[k]].num_interfaces } :
            k \in 1..Len(chain) }

Elems(s) == { s[k] : k \in 1..Len(s) }

\* the names an instance reaches through the interfaces declared on a chain:
\* the synthesized types, the declared interface types and their ancestors
InterfaceNames(chain) ==
    UNION { NamesOf(ChainIn(State, types[types[e[1]].interfaces[e[2]].type].name)) :
            e \in { x \in EntriesOf(chain) : types[x[1]].interfaces[x[2]].type # NULL } }
    \cup UNION { NamesOf(ChainIn(State, types[e[1]].interfaces[e[2]].parent)) :
                 e \in EntriesOf(chain) }

RegisteredOnce ==
    \A t1, t2 \in DOMAIN types : t1 # t2 => types[t1].name # types[t2].name

CastOf(o) == lastOp.op = "cast" /\ lastOp.obj = o

\* C4: in a registry without re-registered names, casting an instance the
\* caller created to a name on its type's parent chain gives the instance
\* itself (is_type holds, get_type is the type's name); casting it to a
\* registered name that is neither on the chain nor reached through an
\* interface declared on the chain gives NULL.
C4_CastAncestry ==
    \A o \in handles :
        (CastOf(o) /\ RegisteredOnce) =>
            LET chain == ChainIn(State, types[TypeOf(o)].name)
            IN  /\ lastOp.name \in NamesOf(chain) =>
                      /\ object_is_type(State, o, lastOp.name)
                      /\ lastOp.ret = o
                      /\ object_get_type(State, o) = types[TypeOf(o)].name
                      /\ Head(Reverse(chain)) = TypeOf(o)
                /\ ( /\ lastOp.name \in DOMAIN type_table
                     /\ lastOp.name \notin NamesOf(chain)
                     /\ lastOp.name \notin InterfaceNames(chain) ) =>
                      lastOp.ret = NULL

\* C5: casting an instance to an interface its type declares gives a
\* trampoline from the instance's list, not the instance, whose class
\* descends from the interface and whose obj is the instance; casting that
\* trampoline to the instance's type gives the instance.
C5_CastToInterface ==
    \A o \in handles :
        ( /\ CastOf(o)
          /\ \E i \in 1..types[TypeOf(o)].num_interfaces :
                types[TypeOf(o)].interfaces[i].parent = lastOp.name ) =>
            /\ lastOp.ret # o
            /\ lastOp.ret \in Elems(objs[o].interfaces)
            /\ AncestorWalk(State, TypeOf(lastOp.ret),
                            type_get_by_name(State, lastOp.name))
            /\ objs[lastOp.ret].obj = o
            /\ object_dynamic_cast(State, lastOp.ret, types[TypeOf(o)].name) = { o }

\* C6: casting an instance to an interface declared on its type's chain does
\* not give NULL, and casting the result to the instance's type gives the
\* instance; casting a trampoline of the instance to any name on the chain of
\* the instance's type gives the instance.
C6_CastSymmetry ==
    \A o \in handles :
        LET chain == ChainIn(State, types[TypeOf(o)].name)
        IN  /\ ( /\ CastOf(o)
                 /\ \E e \in EntriesOf(chain) :
                       types[e[1]].interfaces[e[2]].parent = lastOp.name ) =>
                   /\ lastOp.ret \in 1..Len(objs)
                   /\ object_dynamic_cast(State, lastOp.ret, types[TypeOf(o)].name) = { o }
            /\ \A x \in Elems(objs[o].interfaces) :
                  (CastOf(x) /\ lastOp.name \in NamesOf(chain)) => lastOp.ret = o

\* C6 in a registry without re-registered names
C6_RegisteredOnce == RegisteredOnce => C6_CastSymmetry

\* C7: right after object_new / object_initialize returns, the instance's
\* list holds, for every interface entry declared along the chain, exactly
\* one trampoline whose class descends from that interface type, holds
\* nothing else, and every trampoline's obj is the instance.
C7_InterfaceIdentity ==
    Created =>
        LET o == lastOp.obj
            ifaces == objs[o].interfaces
            entries == EntriesOf(ChainIn(State, lastOp.name))
        IN  /\ \A e \in entries :
                  Cardinality({ k \in 1..Len(ifaces) :
                      AncestorWalk(State, TypeOf(ifaces[k]),
                          type_get_by_name(State, types[e[1]].interfaces[e[2]].parent)) }) = 1
            /\ Len(ifaces) = Cardinality(entries)
            /\ \A k \in 1..Len(ifaces) : objs[ifaces[k]].obj = o

\* one trampoline per entry, of the entry's synthesized type, where the
\* instance has room for its list
C7_OnePerEntry ==
    (Created /\ objs[lastOp.obj].size >= SizeofObject) =>
        LET o == lastOp.obj
            ifaces == objs[o].interfaces
            entries == EntriesOf(ChainIn(State, lastOp.name))
        IN  /\ \A e \in entries :
                  Cardinality({ k \in 1..Len(ifaces) :
                      TypeOf(ifaces[k]) = types[e[1]].interfaces[e[2]].type }) = 1
            /\ Len(ifaces) = Cardinality(entries)
            /\ \A k \in 1..Len(ifaces) : objs[ifaces[k]].obj = o

\* C8: a class, once built, stays: the TypeImpl keeps the same class pointer,
\* the class header keeps pointing at that TypeImpl, and no later operation
\* calls base_init or class_init on it.
C8_BuildOnce ==
    [][ /\ \A t \in DOMAIN types :
              types[t].class # NULL =>
                  /\ types'[t].class = types[t].class
                  /\ classes'[types[t].class] = classes[types[t].class]
                  /\ ClassEvents(log', types[t].class) = << >>
        /\ \A t \in DOMAIN types' :
              types'[t].class # NULL => classes'[types'[t].class].type = t
        /\ \A c \in DOMAIN classes' : types'[classes'[c].type].class = c ]_vars

C8_Witness ==
    /\ Created
    /\ lastOp.name = "Root"
    /\ types[TypeOf(lastOp.obj)].class_init
    /\ Len(InstanceEvents(lastOp.obj, { "instance_init" })) = 1
    /\ ClassEvents(log, objs[lastOp.obj].class) = << >>

\* C9: a cast to a name that is not registered neither faults nor succeeds:
\* is_type is false and dynamic_cast gives NULL, for instances and for
\* trampolines.
C9_UnknownCast ==
    (lastOp.op = "cast" /\ type_get_by_name(State, lastOp.name) = NULL) =>
        /\ ~object_is_type(State, lastOp.obj, lastOp.name)
        /\ lastOp.ret = NULL
        /\ status = OK

InstanceOf(o) == objs[o].class # NULL

NoInstanceWork ==
    \A k \in 1..Len(log) : log[k].hook \notin { "instance_init", "g_slist_prepend" }

\* C10 as stated: no instance exists whose type was registered from a
\* TypeInfo with abstract = true.
C10_NoAbstractInstance ==
    \A o \in 1..Len(objs) :
        InstanceOf(o) => ~types[TypeOf(o)].info_abstract

\* C10 as amended: object_new / object_initialize on a type whose TypeImpl is
\* marked abstract (type_register_static copies the flag, the registration
\* of the synthesized interface types does not) aborts before any
\* instance_init hook runs and before any trampoline is installed; no
\* instance exists whose TypeImpl is marked abstract.
C10_NoAbstractInstance_Amended ==
    /\ \A o \in 1..Len(objs) : InstanceOf(o) => ~types[TypeOf(o)].abstract
    /\ ( /\ lastOp.op \in { "new", "initialize" }
         /\ type_get_by_name(State, lastOp.name) # NULL
         /\ types[type_get_by_name(State, lastOp.name)].abstract ) =>
            /\ status = ABORT
            /\ NoInstanceWork
            /\ ~InstanceOf(lastOp.obj)

C10_Witness ==
    /\ lastOp.op = "new"
    /\ lastOp.name = "IfA"
    /\ status = ABORT
    /\ types[type_get_by_name(State, "IfA")].class # NULL

\* the TypeImpl stored under a name before the step
Before(name) == type_table_lookup(State, name)

\* C11: type_register_static of a name that is already in the registry is
\* fatal: the process dies in the call, no TypeImpl is returned, and lookup
\* of the name still gives the TypeImpl that was stored before.
C11_DuplicateFatal ==
    [][ ( /\ lastOp'.op = "register"
          /\ Before(lastOp'.name) # NULL ) =>
            /\ status' # OK
            /\ type_table_lookup(State', lastOp'.name) = Before(lastOp'.name) ]_vars

\* C12: type_register_static of a TypeInfo that declares more than
\* MAX_INTERFACES interfaces is fatal in the call: no TypeImpl ever has
\* num_interfaces above MAX_INTERFACES or an entry at an index at or beyond
\* MAX_INTERFACES, and the registration does not return.
C12_InterfaceOverflowFatal ==
    /\ \A t \in DOMAIN types :
          /\ types[t].num_interfaces <= MAX_INTERFACES
          /\ DOMAIN types[t].interfaces \subseteq 1..MAX_INTERFACES
    /\ ( /\ lastOp.op = "register"
         /\ \E info \in Catalog : /\ info.name = lastOp.name
                                  /\ Len(info.interfaces) > MAX_INTERFACES ) =>
            status = ABORT

\* the class the call was made on, and the chain of its type
ClassCast == lastOp.op = "class_cast"

ClassChain == ChainIn(State, types[classes[lastOp.obj].type].name)

\* C13: in a registry without re-registered names,
\* object_class_dynamic_cast_assert(class, N) returns class when N is the
\* name of a type on the parent chain of class->type, and for every other N,
\* registered or not, ends the process by the diagnostic and abort().
C13_ClassCastAssert ==
    (ClassCast /\ RegisteredOnce) =>
        IF lastOp.name \in NamesOf(ClassChain)
        THEN status = OK /\ lastOp.ret = lastOp.obj
        ELSE status = ABORT

\* the positions of the log where a class was laid out, and the class hooks
\* the log holds on class c before position k
Memsets == { k \in 1..Len(log) : log[k].hook = "memset" }

ClassHooksBefore(c, k) ==
    { j \in 1..(k - 1) : log[j].on = c /\ log[j].hook \in { "base_init", "class_init" } }

ClassHooksFrom(c, k) ==
    { j \in k..Len(log) : log[j].on = c /\ log[j].hook \in { "base_init", "class_init" } }

ParentOf(t) == type_get_by_name(State, types[t].parent)

\* C14: when the class of a type T with parent P has been laid out and no
\* base_init or class_init has run on it yet, P's class is complete (it
\* exists, P's class_init has run, and it stays as it is), P.class_size <=
\* T.class_size, every slot of T's class behind the header and inside
\* P.class_size equals P's slot, every slot from P.class_size on is zero, and
\* the header of T's class names T; a type whose class_size is below its
\* parent's dies on the assertion.
C14_InheritedVtable ==
    /\ \A k \in Memsets :
          LET e == log[k]
              P == ParentOf(e.ti)
          IN  /\ e.class.type = e.ti
              /\ ClassHooksBefore(e.on, k) = {}
              /\ types[e.ti].parent # NULLSTR =>
                    /\ e.parent_class # NULL
                    /\ e.parent_class = types[P].class
                    /\ ClassHooksFrom(e.parent_class, k) = {}
                    /\ e.parent_slots = classes[e.parent_class].slots
                    /\ types[P].class_size <= e.class.size
                    /\ \A n \in DOMAIN e.class.slots :
                          e.class.slots[n] = IF n <= types[P].class_size
                                             THEN e.parent_slots[n] ELSE 0
    /\ \A t \in DOMAIN types :
          ( /\ types[t].class # NULL
            /\ types[t].parent # NULLSTR
            /\ ParentOf(t) # NULL
            /\ types[ParentOf(t)].class # NULL
            /\ types[ParentOf(t)].class_size > types[t].class_size ) =>
              status = ABORT

\* Leaf's class laid out in the step that also built Mid's and Root's: the
\* slot Mid's class_init stored is in Leaf's class
C14_Witness ==
    /\ status = OK
    /\ \E k \in Memsets :
          /\ types[log[k].ti].name = "Leaf"
          /\ log[k].class.size = 3
          /\ log[k].class.slots[2] = ParentOf(log[k].ti)
          /\ log[k].class.slots[3] = 0
          /\ classes[log[k].on].slots[2] # log[k].class.slots[2]
          /\ \E j \in 1..(k - 1) :
                log[j].hook = "class_init" /\ log[j].ti = ParentOf(log[k].ti)

\* a class_size below the parent's: the assertion ends the process
C14_AssertWitness ==
    /\ status = ABORT
    /\ lastOp.name = "Thin"

\* where in a log T's own class_init ran, and what was done to class c
ClassInitAt(events, t) ==
    { k \in 1..Len(events) : events[k].hook = "class_init" /\ events[k].ti = t }

ClassWorkAt(events, c) ==
    { k \in 1..Len(events) :
        events[k].on = c /\ events[k].hook \in { "memset", "base_init", "class_init" } }

\* C15 as stated: a step that builds the class of a type T with interfaces
\* and a class_init has, when T's class_init starts, registered the
\* synthesized type of every entry of T and built its class: all work on
\* that class (its interface_init included) comes before T's class_init.
C15_InterfaceClassFirst ==
    [][ status' = OK =>
          \A t \in DOMAIN types' :
              (ClassBuilt(t) /\ types'[t].class_init) =>
                  \A i \in 1..types'[t].num_interfaces :
                      LET a == types'[t].interfaces[i].type
                      IN  /\ a # NULL
                          /\ types'[a].class # NULL
                          /\ \A j \in ClassWorkAt(log', types'[a].class),
                                k \in ClassInitAt(log', t) : j < k ]_vars

\* C15 as amended: when T's class_init starts, the synthesized type of every
\* entry of T is registered under its <anonymous-N> name with the declared
\* interface as parent and stored in the entry, but it has no class yet: its
\* class is built, and its interface_init runs, only after T's class_init,
\* when the first trampoline of that type is created.
C15_InterfaceClassFirst_Amended ==
    [][ \A t \in DOMAIN types' :
          (ClassBuilt(t) /\ ClassInitAt(log', t) # {}) =>
              \A i \in 1..types'[t].num_interfaces :
                  LET a == types'[t].interfaces[i].type
                  IN  /\ a # NULL
                      /\ type_table_lookup(State', types'[a].name) = a
                      /\ types'[a].parent = types'[t].interfaces[i].parent
                      /\ types'[a].class # NULL =>
                            /\ ClassWorkAt(log', types'[a].class) # {}
                            /\ \A j \in ClassWorkAt(log', types'[a].class),
                                  k \in ClassInitAt(log', t) : j > k
                            /\ status' = OK =>
                                  \E j \in 1..Len(log') :
                                      /\ log'[j].hook = "g_slist_prepend"
                                      /\ log'[j].ti = t ]_vars

\* Mid's class and the class of its synthesized interface type built in one
\* step, the interface_init after Mid's class_init
C15_Witness ==
    /\ status = OK
    /\ \E t \in DOMAIN types :
          /\ types[t].name = "Mid"
          /\ \E k \in ClassInitAt(log, t) :
                \E j \in ClassInitAt(log, types[t].interfaces[1].type) : k < j

Prepends(events) ==
    { k \in 1..Len(events) : events[k].hook = "g_slist_prepend" }

\* C16: when object_delete / object_finalize of an instance returns, the
\* instance's list is empty, every trampoline that was on the list has been
\* deleted, those of interfaces declared on ancestors included, and the call
\* has put no new trampoline on any list.
C16_TrampolineTeardown ==
    [][ (lastOp'.op \in { "delete", "finalize" } /\ status' = OK) =>
          /\ objs'[lastOp'.obj].interfaces = << >>
          /\ \A x \in Elems(objs[lastOp'.obj].interfaces) : objs'[x].mem = "freed"
          /\ Prepends(log') = {} ]_vars

\* C16 for the instances of types whose proper ancestors declare no interface
C16_NoAncestorInterfaces ==
    [][ ( /\ lastOp'.op \in { "delete", "finalize" }
          /\ status' = OK
          /\ EntriesOf(ChainIn(State, types[TypeOf(lastOp'.obj)].parent)) = {} ) =>
          /\ objs'[lastOp'.obj].interfaces = << >>
          /\ \A x \in Elems(objs[lastOp'.obj].interfaces) : objs'[x].mem = "freed"
          /\ Prepends(log') = {} ]_vars

\* C17: object_new / object_initialize of a type whose instance_size is
\* below sizeof(Object), the header { class, interfaces }, dies on the
\* assertion before it writes the buffer: no instance exists whose
\* instance_size does not cover both header words.
C17_InstanceSizeChecked ==
    /\ \A o \in 1..Len(objs) :
          InstanceOf(o) => types[TypeOf(o)].instance_size >= SizeofObject
    /\ ( /\ lastOp.op \in { "new", "initialize" }
         /\ type_get_by_name(State, lastOp.name) # NULL
         /\ types[type_get_by_name(State, lastOp.name)].instance_size < SizeofObject ) =>
            /\ status = ABORT
            /\ ~InstanceOf(lastOp.obj)

\* every parent and interface name a TypeImpl refers to is registered, and
\* no parent chain comes back to a name it has passed
RECURSIVE NoCycle(_, _)
NoCycle(name, seen) ==
    IF name = NULLSTR \/ type_get_by_name(State, name) = NULL THEN TRUE
    ELSE IF name \in seen THEN FALSE
    ELSE NoCycle(types[type_get_by_name(State, name)].parent, seen \cup { name })

WellFormed ==
    \A t \in DOMAIN types :
        /\ types[t].parent # NULLSTR => types[t].parent \in DOMAIN type_table
        /\ \A i \in DOMAIN types[t].interfaces :
              types[t].interfaces[i].parent \in DOMAIN type_table
        /\ NoCycle(types[t].name, {})

\* the trampolines on o's list, and those on their lists, and so on
RECURSIVE Trampolines(_, _)
Trampolines(o, n) ==
    IF n = 0 \/ objs[o].interfaces = WILD THEN {}
    ELSE Elems(objs[o].interfaces)
         \cup UNION { Trampolines(x, n - 1) : x \in Elems(objs[o].interfaces) }

\* C18: in a registry whose parent relation has no cycle and whose parent
\* and interface names all resolve, object_new of a type that is not
\* abstract comes to an end, also where an interface type declares
\* interfaces, itself included, and the trampolines it created have empty
\* lists of their own.
C18_NewTerminates ==
    ( /\ lastOp.op = "new"
      /\ WellFormed
      /\ type_get_by_name(State, lastOp.name) # NULL
      /\ ~types[type_get_by_name(State, lastOp.name)].abstract ) =>
        /\ status # STACK
        /\ status = OK =>
              \A x \in Trampolines(lastOp.obj, MaxObjs) : objs[x].interfaces = << >>

\* C18 for the types that reach no interface type that declares interfaces
C18_PlainInterfaces ==
    ( /\ lastOp.op = "new"
      /\ WellFormed
      /\ type_get_by_name(State, lastOp.name) # NULL
      /\ ~types[type_get_by_name(State, lastOp.name)].abstract
      /\ \A e \in EntriesOf(ChainIn(State, lastOp.name)) :
            EntriesOf(ChainIn(State, types[e[1]].interfaces[e[2]].parent)) = {} ) =>
        /\ status # STACK
        /\ status = OK =>
              \A x \in Trampolines(lastOp.obj, MaxObjs) : objs[x].interfaces = << >>

\* the names registered before any instance exists
StartupNames == { TYPE_INTERFACE } \cup { Startup[k].name : k \in 1..Len(Startup) }

\* the answers the casts give for instance o and name N in state S
Answers(S, o, N) == << object_is_type(S, o, N), object_dynamic_cast(S, o, N) >>

\* C19: a type_register_static call changes neither object_is_type(O, N) nor
\* object_dynamic_cast(O, N) for an instance O the caller holds and a name N
\* that was registered when O was created, and in every state every
\* instance is of the type object_get_type names for it.
C19_RegistrationFrame ==
    [][ /\ \A o \in handles' :
              object_is_type(State', o, object_get_type(State', o))
        /\ (lastOp'.op = "register" /\ status' = OK) =>
              \A o \in handles, N \in StartupNames :
                  Answers(State, o, N) = Answers(State', o, N) ]_vars

\* C19 for the registration of a name that is not in the registry
C19_FreshName ==
    [][ (lastOp'.op = "register" /\ status' = OK /\ Before(lastOp'.name) = NULL) =>
          \A o \in handles, N \in DOMAIN type_table :
              /\ Answers(State, o, N) = Answers(State', o, N)
              /\ object_is_type(State', o, object_get_type(State', o)) ]_vars

\* the hole of a mapping's space, and the end of a range
HoleStart(m) == IF m.io THEN bus.pci_iohole_start ELSE bus.pci_hole_start

HoleSize(m) == IF m.io THEN bus.pci_iohole_size ELSE bus.pci_hole_size

End(m) == Add(m.loc, m.size)

\* loc is a multiple of 2^k
MultipleOf(loc, k) ==
    IF k <= 16 THEN loc.lo % (2 ^ k) = 0
    ELSE loc.lo = 0 /\ loc.hi % (2 ^ (k - 16)) = 0

InsideHoles ==
    \A i \in 1..Len(maps) :
        /\ Le(HoleStart(maps[i]), maps[i].loc)
        /\ Le(End(maps[i]), Add(HoleStart(maps[i]), HoleSize(maps[i])))

Disjoint ==
    \A i, j \in 1..Len(maps) :
        (i < j /\ maps[i].io = maps[j].io) =>
            Le(End(maps[i]), maps[j].loc) \/ Le(End(maps[j]), maps[i].loc)

AllocBounded ==
    /\ Le(bus.pci_hole_alloc, bus.pci_hole_size)
    /\ Le(bus.pci_iohole_alloc, bus.pci_iohole_size)

Aligned == \A i \in 1..Len(maps) : MultipleOf(maps[i].loc, maps[i].k)

\* C20: the ranges [loc, loc + size) qpci_pc_iomap has handed out in one
\* space are pairwise disjoint and lie inside that space's hole, the alloc
\* counters never decrease and never exceed the hole sizes, and every loc is
\* a multiple of the size of its BAR.
C20_BarAllocator ==
    [][ /\ InsideHoles'
        /\ Disjoint'
        /\ AllocBounded'
        /\ Le(bus.pci_hole_alloc, bus'.pci_hole_alloc)
        /\ Le(bus.pci_iohole_alloc, bus'.pci_iohole_alloc)
        /\ Aligned' ]_vars

\* C20 without the alignment
C20_Ranges ==
    [][ /\ InsideHoles'
        /\ Disjoint'
        /\ AllocBounded'
        /\ Le(bus.pci_hole_alloc, bus'.pci_hole_alloc)
        /\ Le(bus.pci_iohole_alloc, bus'.pci_iohole_alloc) ]_vars

====
